---------------------------- MODULE Spec2Model ----------------------------
(***************************************************************************)
(* Within-host viral dynamics forward model (main_fig.py): the two         *)
(* production-rate functions and the Model class (constructor, setters,    *)
(* simulate).                                                              *)
(*                                                                         *)
(* Number representation.  The program computes with floats; the model     *)
(* computes exactly, in fixed point:                                       *)
(*   - a time is an integer number of ticks; inside simulate one tick is   *)
(*     (1.08/24)/6 = 0.0075 day, so that the literals of the tanh branch   *)
(*     are whole numbers: T_max = 1.08/24 = 6 ticks, t_treat = 2.775 =     *)
(*     370 ticks;                                                          *)
(*   - epsilon is a number of EpsDen-ths (epsilon = eps / EpsDen);         *)
(*   - p0 is an integer;                                                   *)
(*   - np.tanh is tabulated to four decimals at quarter steps of its       *)
(*     argument (TanhTable, in units of 1/TanhOne);                        *)
(*   - a production rate is an integer number of 1/RateUnit;               *)
(*   - a virus load V is [sign, dl]: sign in {-1, 0, 1} and, for V > 0,    *)
(*     dl = 10 * log10(V) (tenths of a decade).                            *)
(***************************************************************************)
EXTENDS Integers, Sequences, FiniteSets, TLC

VARIABLES
    self,      \* the Model object's fields (lines 91-97)
    call,      \* the last call made on the model: its name and arguments
    res,       \* what scipy.integrate.solve_ivp gave that call (line 154)
    rhs,       \* the production rate fun used, per time it was evaluated at
    outcome,   \* how the call ended: a returned value or a raised error
    ref,       \* one earlier simulate call, remembered (or None)
    rq,        \* arguments of the last direct call of a production-rate function
    rr         \* its result

vars == <<self, call, res, rhs, outcome, ref, rq, rr>>

---------------------------------------------------------------------------
(* Bounds of the model. *)

\* epsilon ranges over 0/EpsDen .. EpsDen/EpsDen.
EpsDen == 4
\* times handed to the production-rate functions directly: 0 .. MaxT ticks.
MaxT == 6
\* the longest time grid handed to simulate.
MaxGrid == 2

---------------------------------------------------------------------------
(* Optional values: None is <<>>, a value v is <<v>>. *)

None == <<>>

Some(v) == <<v>>

Abs(x) == IF x < 0 THEN -x ELSE x

---------------------------------------------------------------------------
(* np.tanh (line 64), tabulated: TanhTable[i + 1] = round(10^4 tanh(i/4)). *)
(* Beyond the table the value is 1 to four decimals (the float tanh is     *)
(* exactly 1.0 from about 19).                                             *)

TanhTable ==
    << 0, 2449, 4621, 6351, 7616, 8483, 9051, 9414, 9640, 9780, 9866,
       9919, 9951, 9970, 9982, 9989, 9993, 9996, 9998, 9999, 9999, 9999,
       10000 >>

TanhOne == TanhTable[Len(TanhTable)]

\* tanh(num / den) for den > 0, the argument cut to the quarter step below
\* its magnitude; odd, and non-decreasing in num / den.
tanh(num, den) ==
    LET i == (4 * Abs(num)) \div den
        v == IF i + 1 >= Len(TanhTable) THEN TanhOne ELSE TanhTable[i + 1]
    IN  IF num < 0 THEN -v ELSE v

\* One unit of production rate is 1 / RateUnit.
RateUnit == 2 * EpsDen * TanhOne

---------------------------------------------------------------------------
(* The production-rate functions (lines 13-66). *)

\* Variant: the reduced rate only after t_treat.
production_rate_step_le(t, t_treat, p0, epsilon) ==
    IF t <= t_treat
        THEN p0 * RateUnit
        ELSE (p0 * (EpsDen - epsilon)) * (RateUnit \div EpsDen)

\* if t < t_treat: p = p0, else: p = p0 * (1.0 - epsilon)
production_rate_step(t, t_treat, p0, epsilon) ==
    IF t < t_treat
        THEN p0 * RateUnit
        ELSE (p0 * (EpsDen - epsilon)) * (RateUnit \div EpsDen)

\* Variant: the tanh term with the opposite sign.
production_rate_tanh_flipped(t, t_treat, T_max, p0, epsilon) ==
    LET num == 4 * (t - t_treat) - 2 * T_max
    IN  (p0 * epsilon) * tanh(num, T_max) + p0 * RateUnit
            - (p0 * epsilon) * TanhOne

\* Variant: the tanh term without the efficacy.
production_rate_tanh_noeps(t, t_treat, T_max, p0, epsilon) ==
    LET num == 4 * (t - t_treat) - 2 * T_max
    IN  - (p0 * EpsDen) * tanh(num, T_max) + p0 * RateUnit
            - (p0 * epsilon) * TanhOne

\* arg = (t - (t_treat + 0.5 * T_max)) / (0.25 * T_max)
\*     = (4 (t - t_treat) - 2 T_max) / T_max
\* p = - (p0 * epsilon/2) * np.tanh(arg) + p0 - (p0 * epsilon/2)
production_rate_tanh(t, t_treat, T_max, p0, epsilon) ==
    LET num == 4 * (t - t_treat) - 2 * T_max
    IN  - (p0 * epsilon) * tanh(num, T_max) + p0 * RateUnit
            - (p0 * epsilon) * TanhOne

---------------------------------------------------------------------------
(* Direct calls of the production-rate functions, as make_figure makes     *)
(* them (lines 188-193).  The arguments are drawn in SpecRateInit; a call  *)
(* applies the function to them.                                           *)

RateTimes == 0 .. MaxT

\* T_max > 0, even so that the midpoint t_treat + 0.5 T_max is on the grid.
TmaxSet == {2, 4}

P0Set == {-1, 0, 1, 3}

EpsSet == 0 .. EpsDen

NoQuery == [fn |-> "none", t |-> 0, t_treat |-> 0, T_max |-> 2, p0 |-> 0,
            epsilon |-> 0]

CallStep ==
    /\ rq.fn = "none"
    /\ rq' = [rq EXCEPT !.fn = "step"]
    /\ rr' = production_rate_step(rq.t, rq.t_treat, rq.p0, rq.epsilon)
    /\ UNCHANGED <<self, call, res, rhs, outcome, ref>>

CallTanh ==
    /\ rq.fn = "none"
    /\ rq' = [rq EXCEPT !.fn = "tanh"]
    /\ rr' = production_rate_tanh(rq.t, rq.t_treat, rq.T_max, rq.p0,
                                  rq.epsilon)
    /\ UNCHANGED <<self, call, res, rhs, outcome, ref>>

NoCall == [op |-> "none", parameters |-> <<>>, times |-> <<>>, arg |-> None,
           repeat |-> FALSE]

NoRes == [status |-> "none", y |-> <<>>]

NoRhs == [t \in {} |-> 0]

NoOutcome == [kind |-> "none", value |-> <<>>, type |-> "", line |-> 0,
              expected |-> 0, integrated |-> FALSE]

SpecRateInit ==
    /\ self = [y0 |-> <<0, 0, 0>>, solver |-> "RK45", step_size |-> None,
               tolerance |-> None, t_treat |-> 0, p_fn |-> "Step",
               limit_of_quant |-> TRUE]
    /\ call = NoCall
    /\ res = NoRes
    /\ rhs = NoRhs
    /\ outcome = NoOutcome
    /\ ref = None
    /\ rq \in [fn : {"none"}, t : RateTimes, t_treat : RateTimes,
               T_max : TmaxSet, p0 : P0Set, epsilon : EpsSet]
    /\ rr = 0

NextRate == CallStep \/ CallTanh

SpecRate == SpecRateInit /\ [][NextRate]_vars

---------------------------------------------------------------------------
(* The Model class (lines 69-172). *)

\* The literals of the tanh branch of fun, in ticks of 0.0075 day:
\* t_treat = 2.775 (line 145) and T_max = 1.08/24 (line 146).
T_TREAT_LIT == 370

T_MAX_LIT == 6

\* beta, delta, p0, c, epsilon = parameters (line 136) takes exactly 5.
N_UNPACK == 5

\* 10**(0.7) (line 170) as a virus load: 7 tenths of a decade.
LOQ_DL == 7

LOQ == [sign |-> 1, dl |-> LOQ_DL]

\* a < b on virus loads.
Less(a, b) ==
    IF a.sign # b.sign THEN a.sign < b.sign
    ELSE IF a.sign = 1 THEN a.dl < b.dl
    ELSE IF a.sign = -1 THEN a.dl > b.dl
    ELSE FALSE

\* np.log10 of one virus load (line 172): a number of tenths, -inf at 0
\* and nan below 0.
log10(v) ==
    IF v.sign = 1 THEN [k |-> "num", v |-> v.dl]
    ELSE IF v.sign = 0 THEN [k |-> "-inf", v |-> 0]
    ELSE [k |-> "nan", v |-> 0]

\* __init__ (lines 70-97): stores its arguments, validating none.
init(y0, solver, step_size, tolerance, t_treat, p_fn, limit_of_quant) ==
    [y0 |-> y0, solver |-> solver, step_size |-> step_size,
     tolerance |-> tolerance, t_treat |-> t_treat, p_fn |-> p_fn,
     limit_of_quant |-> limit_of_quant]

set_step_size(slf, step_size) == [slf EXCEPT !.step_size = step_size]

\* Variant: setting the tolerance unsets the step size.
set_tolerance_exclusive(slf, tolerance) ==
    [slf EXCEPT !.tolerance = tolerance, !.step_size = None]

set_tolerance(slf, tolerance) == [slf EXCEPT !.tolerance = tolerance]

n_parameters == 5

\* Variant: the tanh branch reads the model's t_treat.
fun_configured(slf, parameters, t) ==
    LET p0 == parameters[3]
        epsilon == parameters[5]
    IN  IF slf.p_fn = "Step"
            THEN [bound |-> TRUE,
                  p |-> production_rate_step(t, slf.t_treat, p0, epsilon)]
        ELSE IF slf.p_fn = "Tanh"
            THEN [bound |-> TRUE,
                  p |-> production_rate_tanh(t, slf.t_treat, T_MAX_LIT, p0,
                                             epsilon)]
        ELSE [bound |-> FALSE, p |-> 0]

\* Variant: any p_fn but "Tanh" is taken as "Step".
fun_fallback(slf, parameters, t) ==
    LET p0 == parameters[3]
        epsilon == parameters[5]
    IN  IF slf.p_fn = "Tanh"
            THEN [bound |-> TRUE,
                  p |-> production_rate_tanh(t, T_TREAT_LIT, T_MAX_LIT, p0,
                                             epsilon)]
        ELSE [bound |-> TRUE,
              p |-> production_rate_step(t, slf.t_treat, p0, epsilon)]

\* fun (lines 138-150), the production rate it uses at time t: p is
\* assigned under "Step" and under "Tanh" and under nothing else, so that
\* line 149 reads an unassigned p (UnboundLocalError) for any other p_fn.
\* The derivative d built from p goes to the integrator alone.
fun(slf, parameters, t) ==
    LET p0 == parameters[3]
        epsilon == parameters[5]
    IN  IF slf.p_fn = "Step"
            THEN [bound |-> TRUE,
                  p |-> production_rate_step(t, slf.t_treat, p0, epsilon)]
        ELSE IF slf.p_fn = "Tanh"
            THEN [bound |-> TRUE,
                  p |-> production_rate_tanh(t, T_TREAT_LIT, T_MAX_LIT, p0,
                                             epsilon)]
        ELSE [bound |-> FALSE, p |-> 0]

\* The largest element (0 for none, where max(times) raises).
SeqMax(times) ==
    IF times = <<>> THEN 0
    ELSE LET m == CHOOSE i \in 1 .. Len(times) :
                      \A j \in 1 .. Len(times) : times[j] <= times[i]
         IN  times[m]

\* Variant: an empty sequence has the maximum 0.
max_raises_never(times) == FALSE

\* max(times) (line 152) raises ValueError on an empty sequence.
max_raises(times) == times = <<>>

\* t_range = (0, max(times)) (line 152).
t_range(times) == <<0, SeqMax(times)>>

\* solve_ivp's check of t_eval (the call of line 154): every value within
\* t_span, and the values strictly increasing when tf > t0 (strictly
\* decreasing when tf < t0); it raises ValueError otherwise.
t_eval_rejected(span, times) ==
    LET t0 == span[1]
        tf == span[2]
        lo == IF t0 < tf THEN t0 ELSE tf
        hi == IF t0 < tf THEN tf ELSE t0
        n == Len(times)
    IN  \/ \E i \in 1 .. n : times[i] < lo \/ times[i] > hi
        \/ tf > t0 /\ \E i \in 1 .. n - 1 : times[i + 1] - times[i] <= 0
        \/ tf < t0 /\ \E i \in 1 .. n - 1 : times[i + 1] - times[i] >= 0

\* Virus loads a trajectory may hold after time 0: below zero (an
\* overshoot), zero, below the limit of quantification, above it.
VALS == {[sign |-> -1, dl |-> 0], [sign |-> 0, dl |-> 0],
         [sign |-> 1, dl |-> 6], [sign |-> 1, dl |-> 8]}

\* The first k samples of the virus load on the grid times: the sample at
\* time 0 is y0's, the others are the integrator's.
Samples(slf, times, k) ==
    {y \in [1 .. k -> VALS \cup {slf.y0[3]}] :
        \A i \in 1 .. k :
            y[i] \in IF times[i] = 0 THEN {slf.y0[3]} ELSE VALS}

\* scipy.integrate.solve_ivp as called at lines 154-163: every result it may
\* give.  It raises ValueError on a rejected t_eval.  Constructing the RK45
\* solver compares rtol with a float, which raises TypeError for the None of
\* an unset tolerance, and then evaluates fun at (0, y0), whose exception
\* passes through.  Over an empty interval (max(times) = 0) it finishes at
\* once with y0 for every time.  Otherwise it integrates and returns without
\* raising: status "finished" with one sample per time of t_eval, or, when a
\* step fails, status "failed" with the samples reached before the failure
\* (fewer than asked).  y is the third row of res.y.
solve_ivp(slf, parameters, times) ==
    LET span == t_range(times)
        n == Len(times)
    IN  IF t_eval_rejected(span, times)
            THEN {[status |-> "rejected", y |-> <<>>]}
        ELSE IF slf.tolerance = None
            THEN {[status |-> "raised", y |-> <<>>]}
        ELSE IF ~fun(slf, parameters, span[1]).bound
            THEN {[status |-> "fun_raised", y |-> <<>>]}
        ELSE IF span[2] = span[1]
            THEN [status : {"finished"}, y : Samples(slf, times, n)]
        ELSE [status : {"finished"}, y : Samples(slf, times, n)]
             \cup UNION {[status : {"failed"}, y : Samples(slf, times, k)] :
                             k \in 0 .. n - 1}

\* An exception leaving simulate: its type, the line that raises it (154
\* for one raised inside solve_ivp), the count its message names, and
\* whether solve_ivp had been called.
Error(type, line, expected, integrated) ==
    [kind |-> "error", value |-> <<>>, type |-> type, line |-> line,
     expected |-> expected, integrated |-> integrated]

\* Variant: the log taken first and the clip after it: a log below
\* 10**(0.7), which is 50 tenths, becomes 50 tenths.
log_then_clip(slf, y) ==
    [i \in 1 .. Len(y) |->
        LET l == log10(y[i])
        IN  IF /\ slf.limit_of_quant
               /\ (l.k = "-inf" \/ (l.k = "num" /\ l.v < 50))
                THEN [k |-> "num", v |-> 50]
                ELSE l]

\* Lines 168-172: y[y < 10**(0.7)] = 10**(0.7) when limit_of_quant is True,
\* then np.log10(y).
clip_then_log(slf, y) ==
    [i \in 1 .. Len(y) |->
        log10(IF slf.limit_of_quant /\ Less(y[i], LOQ) THEN LOQ ELSE y[i])]

\* Variant: only a sequence that is too short is refused.
unpack_raises_short(parameters) == Len(parameters) < N_UNPACK

\* Line 136: unpacking a sequence of another length than 5 raises
\* ValueError ("... (expected 5 ...)").
unpack_raises(parameters) == Len(parameters) # N_UNPACK

\* Whether simulate gets as far as calling solve_ivp.
Reached(parameters, times) ==
    ~unpack_raises(parameters) /\ ~max_raises(times)

\* simulate (lines 124-172), given what solve_ivp answered with.
simulate(slf, parameters, times, r) ==
    IF unpack_raises(parameters)
        THEN Error("ValueError", 136, N_UNPACK, FALSE)
    ELSE IF max_raises(times)
        THEN Error("ValueError", 152, 0, FALSE)
    ELSE IF r.status = "rejected"
        THEN Error("ValueError", 154, 0, TRUE)
    ELSE IF r.status = "raised"
        THEN Error("TypeError", 154, 0, TRUE)
    ELSE IF r.status = "fun_raised"
        THEN Error("UnboundLocalError", 149, 0, TRUE)
    ELSE IF r.y = <<>> /\ r.status = "failed"
        \* no sample was reached: res.y is no array (y.ndim raises)
        THEN Error("AttributeError", 165, 0, TRUE)
    ELSE [kind |-> "returned", value |-> clip_then_log(slf, r.y),
          type |-> "", line |-> 172, expected |-> 0, integrated |-> TRUE]

---------------------------------------------------------------------------
(* Calls on one model. *)

Y0 == <<[sign |-> 1, dl |-> 86], [sign |-> 1, dl |-> -60],
        [sign |-> 1, dl |-> -34]>>

TreatTimes == {364, T_TREAT_LIT}

PFns == {"Step", "Tanh", "Linear"}

\* 10^-3 and 10^-13, by their exponents.
Tolerances == {3, 13}

StepSizes == {1}

\* [beta, delta, p0, c, epsilon], and two vectors of a wrong length.
ParamVectors ==
    {<<2, 7, 1, 15, 0>>, <<2, 7, 1, 15, 3>>, <<2, 7, 1, 15>>,
     <<2, 7, 1, 15, 3, 1>>}

TimePts == {0, 370, 400}

Grids == UNION {[1 .. n -> TimePts] : n \in 0 .. MaxGrid}

\* Times at which the integrator may evaluate fun.
ProbeTimes == {0, 364, 367, 370, 373, 376}

Init ==
    /\ self \in {init(Y0, "RK45", ss, tol, tt, pf, loq) :
                    ss \in {None} \cup {Some(v) : v \in StepSizes},
                    tol \in {None} \cup {Some(v) : v \in Tolerances},
                    tt \in TreatTimes, pf \in PFns, loq \in BOOLEAN}
    /\ call = NoCall
    /\ res = NoRes
    /\ rhs = NoRhs
    /\ outcome = NoOutcome
    /\ ref = None
    /\ rq = NoQuery
    /\ rr = 0

SetStepSize ==
    /\ \E v \in StepSizes :
          /\ self' = set_step_size(self, Some(v))
          /\ call' = [op |-> "set_step_size", parameters |-> <<>>,
                      times |-> <<>>, arg |-> Some(v), repeat |-> FALSE]
    /\ res' = NoRes
    /\ rhs' = NoRhs
    /\ outcome' = [NoOutcome EXCEPT !.kind = "returned"]
    /\ ref' = None
    /\ UNCHANGED <<rq, rr>>

SetTolerance ==
    /\ \E v \in Tolerances :
          /\ self' = set_tolerance(self, Some(v))
          /\ call' = [op |-> "set_tolerance", parameters |-> <<>>,
                      times |-> <<>>, arg |-> Some(v), repeat |-> FALSE]
    /\ res' = NoRes
    /\ rhs' = NoRhs
    /\ outcome' = [NoOutcome EXCEPT !.kind = "returned"]
    /\ ref' = None
    /\ UNCHANGED <<rq, rr>>

\* Whether a simulate call has the arguments of the remembered call.
Repeats(parameters, times) ==
    /\ ref # None
    /\ ref[1].parameters = parameters
    /\ ref[1].times = times

\* solve_ivp is deterministic: called again for the remembered call, with
\* the model's fields as they were, it answers as it did.
Answers(parameters, times) ==
    IF ~Reached(parameters, times) THEN {NoRes}
    ELSE IF Repeats(parameters, times) /\ ref[1].self = self
        THEN {ref[1].res}
    ELSE solve_ivp(self, parameters, times)

\* One simulate call, its arguments drawn from PV and GR.  With remember,
\* the call may become the remembered one when none is.
SimulateOn(PV, GR, remember) ==
    \E parameters \in PV, times \in GR :
        \E r \in Answers(parameters, times) :
            LET o == simulate(self, parameters, times, r)
            IN  /\ call' = [op |-> "simulate", parameters |-> parameters,
                            times |-> times, arg |-> None,
                            repeat |-> Repeats(parameters, times)]
                /\ res' = r
                /\ rhs' = IF r.status \in {"finished", "failed"}
                              THEN [t \in {u \in ProbeTimes :
                                             u <= t_range(times)[2]} |->
                                       fun(self, parameters, t).p]
                              ELSE NoRhs
                /\ outcome' = o
                /\ ref' \in IF remember /\ ref = None
                               THEN {None,
                                     Some([self |-> self,
                                           parameters |-> parameters,
                                           times |-> times, res |-> r,
                                           outcome |-> o])}
                               ELSE {ref}
                /\ UNCHANGED <<self, rq, rr>>

Simulate == SimulateOn(ParamVectors, Grids, FALSE)

Next == SetStepSize \/ SetTolerance \/ Simulate

Spec == Init /\ [][Next]_vars

\* The same calls over fewer arguments, with one simulate call remembered.
DetParams == {<<2, 7, 1, 15, 3>>, <<2, 7, 1, 15, 3, 1>>}

DetGrids == {<<>>, <<0>>, <<0, 400>>, <<400, 0>>}

SimulateDet == SimulateOn(DetParams, DetGrids, TRUE)

NextDet == SetStepSize \/ SetTolerance \/ SimulateDet

SpecDet == Init /\ [][NextDet]_vars

---------------------------------------------------------------------------
(* Claims about the production-rate functions, under SpecRate. *)

\* C1: production_rate_step returns exactly p0 for every t < t_treat and
\* exactly p0 (1 - epsilon) for every t >= t_treat, t = t_treat included,
\* for all p0 and all epsilon in [0, 1].
C1_StepContract ==
    rq.fn = "step" =>
        /\ rq.t < rq.t_treat => rr = rq.p0 * RateUnit
        /\ rq.t >= rq.t_treat =>
              EpsDen * rr = rq.p0 * RateUnit * (EpsDen - rq.epsilon)

\* A call at t = t_treat itself, where the reduced rate already applies.
C1_Witness ==
    /\ rq.fn = "step"
    /\ rq.t = rq.t_treat
    /\ rq.p0 > 0
    /\ rq.epsilon > 0
    /\ rr < rq.p0 * RateUnit

\* C7: with epsilon = 0 both production_rate_step and production_rate_tanh
\* return p0, for every t, every t_treat and (tanh) every T_max > 0.
C7_NoEfficacy ==
    (rq.fn \in {"step", "tanh"} /\ rq.epsilon = 0) => rr = rq.p0 * RateUnit

\* A tanh call without efficacy, after the transition is over.
C7_Witness ==
    /\ rq.fn = "tanh"
    /\ rq.epsilon = 0
    /\ rq.p0 = 3
    /\ rq.t > rq.t_treat + rq.T_max
    /\ rr = 3 * RateUnit

\* C8: for p0 > 0, epsilon > 0 and T_max > 0, production_rate_tanh is
\* non-increasing in t (no later time has a higher rate), and at the
\* midpoint t = t_treat + 0.5 T_max it equals p0 (1 - epsilon/2).
C8_TanhMonotone ==
    (rq.fn = "tanh" /\ rq.p0 > 0 /\ rq.epsilon > 0) =>
        /\ \A t2 \in RateTimes :
              t2 >= rq.t =>
                  rr >= production_rate_tanh(t2, rq.t_treat, rq.T_max,
                                             rq.p0, rq.epsilon)
        /\ 2 * rq.t = 2 * rq.t_treat + rq.T_max =>
              2 * EpsDen * rr
                  = rq.p0 * RateUnit * (2 * EpsDen - rq.epsilon)

\* A call at the midpoint, whose rate lies strictly between the treated and
\* the untreated rate, with a strictly lower rate later on.
C8_Witness ==
    /\ rq.fn = "tanh"
    /\ rq.p0 > 0
    /\ rq.epsilon > 0
    /\ 2 * rq.t = 2 * rq.t_treat + rq.T_max
    /\ rr < rq.p0 * RateUnit
    /\ EpsDen * rr > rq.p0 * RateUnit * (EpsDen - rq.epsilon)
    /\ \E t2 \in RateTimes :
          /\ t2 > rq.t
          /\ rr > production_rate_tanh(t2, rq.t_treat, rq.T_max, rq.p0,
                                       rq.epsilon)

---------------------------------------------------------------------------
(* Claims about simulate, under Spec.  Logs are in tenths: 0.7 is 7. *)

\* C2: with limit_of_quant True every element simulate returns is >= 0.7:
\* a virus load below 10^0.7 is replaced by 10^0.7 before the log is taken,
\* so each element is log10(max(V_i, 10^0.7)).
C2_DetectionLimit ==
    (call.op = "simulate" /\ self.limit_of_quant
        /\ outcome.kind = "returned") =>
        /\ Len(outcome.value) = Len(res.y)
        /\ \A i \in 1 .. Len(outcome.value) :
              /\ outcome.value[i].k = "num"
              /\ outcome.value[i].v >= 7
              /\ outcome.value[i].v
                    = IF res.y[i].sign = 1 /\ res.y[i].dl > 7
                          THEN res.y[i].dl
                          ELSE 7

\* A returned pair whose first load, the initial one, was clipped and whose
\* second, above the limit, was not.
C2_Witness ==
    /\ call.op = "simulate"
    /\ self.limit_of_quant
    /\ outcome.kind = "returned"
    /\ res.status = "finished"
    /\ call.times = <<0, 400>>
    /\ res.y[1] = self.y0[3]
    /\ Less(res.y[1], LOQ)
    /\ res.y[2].dl = 8
    /\ outcome.value = <<[k |-> "num", v |-> 7], [k |-> "num", v |-> 8]>>

\* C3: when the integrator reports failure, simulate ends in an error and
\* returns nothing; whenever simulate returns, the sequence has as many
\* elements as the time grid.
C3_FailureSurfaces ==
    call.op = "simulate" =>
        /\ res.status = "failed" => outcome.kind = "error"
        /\ outcome.kind = "returned" =>
              Len(outcome.value) = Len(call.times)

\* C4: simulate with a parameter sequence of another length than 5 fails
\* with an invalid-argument error naming the expected count 5, before any
\* integration is attempted, and leaves the model's fields unchanged.
C4_ParamCount ==
    [][(call'.op = "simulate" /\ Len(call'.parameters) # 5) =>
          /\ outcome'.kind = "error"
          /\ outcome'.type = "ValueError"
          /\ outcome'.expected = 5
          /\ outcome'.expected = n_parameters
          /\ ~outcome'.integrated
          /\ res' = NoRes
          /\ DOMAIN rhs' = {}
          /\ self' = self]_vars

\* A call with six values (the five and the noise) on a model whose
\* tolerance was set, refused.
C4_Witness ==
    /\ call.op = "simulate"
    /\ Len(call.parameters) = 6
    /\ self.tolerance # None
    /\ outcome.kind = "error"
    /\ outcome.expected = 5
    /\ ~outcome.integrated

\* C5: simulate with an empty time grid, or with one that is not sorted
\* ascending, fails with an invalid-argument error and returns no sequence.
C5_BadGrid ==
    (/\ call.op = "simulate"
     /\ \/ call.times = <<>>
        \/ \E i \in 1 .. Len(call.times) - 1 :
              call.times[i + 1] < call.times[i]) =>
        /\ outcome.kind = "error"
        /\ outcome.type = "ValueError"
        /\ outcome.value = <<>>

\* A descending grid with five parameters, refused by the integrator's
\* check of t_eval.
C5_Witness ==
    /\ call.op = "simulate"
    /\ Len(call.parameters) = 5
    /\ Len(call.times) = 2
    /\ call.times[2] < call.times[1]
    /\ self.tolerance # None
    /\ outcome.kind = "error"
    /\ outcome.line = 154

\* C9: under "Tanh" the rate fun uses is computed with t_treat = 2.775
\* (370 ticks) and T_max = 1.08/24 (6 ticks), not with the model's t_treat:
\* models differing only in t_treat have the same rate at every time.
\* Under "Step" the rate switches at the model's t_treat.
C9_TanhIgnoresConfig ==
    (call.op = "simulate" /\ DOMAIN rhs # {}) =>
        LET p0 == call.parameters[3]
            epsilon == call.parameters[5]
        IN  /\ self.p_fn = "Tanh" =>
                 \A t \in DOMAIN rhs :
                    /\ rhs[t] = production_rate_tanh(t, 370, 6, p0, epsilon)
                    /\ \A tt \in TreatTimes :
                          fun([self EXCEPT !.t_treat = tt],
                              call.parameters, t).p = rhs[t]
            /\ self.p_fn = "Step" =>
                 \A t \in DOMAIN rhs :
                    /\ t < self.t_treat => rhs[t] = p0 * RateUnit
                    /\ t >= self.t_treat =>
                          EpsDen * rhs[t]
                              = p0 * RateUnit * (EpsDen - epsilon)

\* A "Tanh" model whose t_treat is not 2.775, integrated past the
\* transition: at its own midpoint the rate is not what its t_treat gives.
C9_Witness ==
    /\ call.op = "simulate"
    /\ self.p_fn = "Tanh"
    /\ self.t_treat = 364
    /\ self.tolerance # None
    /\ 367 \in DOMAIN rhs
    /\ 376 \in DOMAIN rhs
    /\ call.parameters[5] > 0
    /\ rhs[367] # production_rate_tanh(367, self.t_treat, 6,
                                       call.parameters[3],
                                       call.parameters[5])
    /\ rhs[367] > rhs[376]

\* C10: the constructor accepts any p_fn; with a p_fn that is neither
\* "Step" nor "Tanh" no rate is ever assigned, so simulate never returns:
\* it ends in an error, raised by the first evaluation of fun whenever the
\* integrator gets to evaluate it.
C10_UnknownPolicy ==
    (call.op = "simulate" /\ self.p_fn \notin {"Step", "Tanh"}) =>
        /\ outcome.kind = "error"
        /\ DOMAIN rhs = {}
        /\ res.status \notin {"finished", "failed"}
        /\ (outcome.integrated /\ res.status \notin {"rejected", "raised"})
              => /\ outcome.type = "UnboundLocalError"
                 /\ outcome.line = 149

\* A model built with p_fn = "Linear", called with valid arguments.
C10_Witness ==
    /\ call.op = "simulate"
    /\ self.p_fn = "Linear"
    /\ self.tolerance # None
    /\ Len(call.parameters) = 5
    /\ call.times = <<0, 400>>
    /\ outcome.type = "UnboundLocalError"

---------------------------------------------------------------------------
(* Claim about sequences of calls, under SpecDet. *)

\* C6: simulate, successful or failing, changes none of the stored fields;
\* set_step_size changes only step_size; set_tolerance changes only
\* tolerance; so a simulate call with the parameters and times of an
\* earlier one, no setter called in between, ends as the earlier one did.
C6_Frame ==
    [][/\ call'.op = "simulate" => self' = self
       /\ call'.op = "set_step_size" =>
             self' = [self EXCEPT !.step_size = self'.step_size]
       /\ call'.op = "set_tolerance" =>
             self' = [self EXCEPT !.tolerance = self'.tolerance]
       /\ (call'.op = "simulate" /\ Repeats(call'.parameters, call'.times))
             => outcome' = ref[1].outcome]_vars

\* A returning call repeated after both setters were used, with the same
\* result as before.
C6_Witness ==
    /\ call.op = "simulate"
    /\ call.repeat
    /\ self.tolerance # None
    /\ self.step_size # None
    /\ outcome.kind = "returned"
    /\ Len(outcome.value) = 2
    /\ outcome = ref[1].outcome

=============================================================================
